---- MODULE Spec2Model ----
(***************************************************************************)
(* Model of packages/angular/plugins/angular-vite-compiler/host.ts:        *)
(* the four augmentations of a TypeScript compiler host / program          *)
(*   augmentProgramWithVersioning          (getSourceFiles)                *)
(*   augmentHostWithDependencyCollection   (resolveModuleNames)            *)
(*   augmentHostWithCaching                (getSourceFile)                 *)
(*   augmentHostWithNgcc                   (resolveModuleNames and         *)
(*                                          resolveTypeReferenceDirectives)*)
(* Every call of a wrapped operation is one atomic action: the code is     *)
(* synchronous and single-threaded.                                        *)
(***************************************************************************)
EXTENDS Integers, Sequences, FiniteSets, TLC

(***************************************************************************)
(* Bounds of the model.                                                    *)
(***************************************************************************)
MaxBatch == 2
MaxLayers == 2
MaxHandles == 3
MaxRevision == 1
MaxFiles == 2
MaxTextLen == 1

(***************************************************************************)
(* Values.  A path is a sequence of tokens: separators and segments.       *)
(***************************************************************************)
AppTs == <<"/", "src", "/", "app.ts">>
AppTsWin == <<"\\", "src", "\\", "app.ts">>
MainTs == <<"/", "src", "/", "main.ts">>
MalformedPath == <<"/", "src", "/", "NUL">>
PkgADts == <<"/", "node_modules", "/", "pkg-a", "/", "index.d.ts">>
PkgBDts == <<"\\", "node_modules", "\\", "pkg-b", "\\", "index.d.ts">>
NodeDts == <<"/", "node_modules", "/", "@types", "/", "node", "/", "index.d.ts">>
JasmineDts == <<"/", "node_modules", "/", "@types", "/", "jasmine", "/", "index.d.ts">>

ContainingFiles == {AppTs, AppTsWin, MainTs}
ModuleNames == {"pkg-a", "pkg-b"}
TypeNames == {"node", "jasmine"}
\* The type packages present under node_modules/@types.
TypesInstalled == {"node"}

Batches(S) == UNION {[1..n -> S] : n \in 0..MaxBatch}

\* A resolution result: ts.ResolvedModule | undefined.
Undefined == [defined |-> FALSE]
Resolved(p) == [defined |-> TRUE, resolvedFileName |-> p]

VARIABLES
    hasNativeRMN,    \* the base host has its own resolveModuleNames
    hasNativeTRD,    \* the base host has its own resolveTypeReferenceDirectives
    layers,          \* augmentations applied to the host's resolution, oldest first
    ngcc,            \* ngcc[k]: the NgccProcessor the k-th augmentation was given
                     \* is truthy (FALSE for the recorder, which is given none)
    dependencies,    \* the Map<string, Set<string>> given to the dependency recorder
    installed,       \* module names the underlying resolution resolves
    lastCall         \* the call the driver has just made and what it did; it is
                     \* forgotten when the host or the file system changes

resolutionVars == <<hasNativeRMN, hasNativeTRD, layers, ngcc, dependencies,
                    installed, lastCall>>

(***************************************************************************)
(* The path helper ./path (not in src/): maps the platform's separators to *)
(* one canonical form; it cannot proceed on a malformed path.              *)
(***************************************************************************)
normalizePathThrows(path) == \E i \in DOMAIN path : path[i] = "NUL"

normalizePath(path) == [i \in DOMAIN path |-> IF path[i] = "\\" THEN "/" ELSE path[i]]

(***************************************************************************)
(* The underlying resolution: the base host's batched resolver and the     *)
(* single-name ts.resolveModuleName / ts.resolveTypeReferenceDirective.    *)
(***************************************************************************)
ModuleTarget(name) == IF name = "pkg-a" THEN PkgADts ELSE PkgBDts

TypeTarget(name) == IF name = "node" THEN NodeDts ELSE JasmineDts

ResolveModuleIn(inst, name, containingFile) ==
    IF name \in inst THEN Resolved(ModuleTarget(name)) ELSE Undefined

ResolveTypeIn(inst, name, containingFile) ==
    IF name \in inst THEN Resolved(TypeTarget(name)) ELSE Undefined

tsResolveModuleName(name, containingFile) ==
    ResolveModuleIn(installed, name, containingFile)

tsResolveTypeReferenceDirective(name, containingFile) ==
    ResolveTypeIn(TypesInstalled, name, containingFile)

baseResolveModuleNames(moduleNames, containingFile) ==
    [i \in 1..Len(moduleNames) |-> ResolveModuleIn(installed, moduleNames[i], containingFile)]

baseResolveTypeReferenceDirectives(names, containingFile) ==
    [i \in 1..Len(names) |-> ResolveTypeIn(TypesInstalled, names[i], containingFile)]

(***************************************************************************)
(* The effects of one call: the graph, the processModule calls made, the   *)
(* batches handed to the base host's resolver, whether an error left the   *)
(* call, the installed functions entered, in order: which augmentation     *)
(* installed it and in which of its two branches, and the caller's name    *)
(* array as the call leaves it.                                            *)
(***************************************************************************)
Effects(deps) == [deps |-> deps, pipeline |-> <<>>, baseCalls |-> <<>>, threw |-> FALSE,
                  entered |-> <<>>, batch |-> <<>>]

\* The caller hands its name array to the host's operation by reference.
Given(st, names) == [st EXCEPT !.batch = names]

Enter(st, augmentation, branch) ==
    [st EXCEPT !.entered = Append(@, <<augmentation, branch>>)]

Throw(st) == [res |-> <<>>, st |-> [st EXCEPT !.threw = TRUE]]

\* A recorder that replaces the set of a containing file on every edge.
RecordEdgeReplacing(deps, containingFilePath, resolvedFileName) ==
    IF containingFilePath \in DOMAIN deps
    THEN [deps EXCEPT ![containingFilePath] = {resolvedFileName}]
    ELSE deps @@ (containingFilePath :> {resolvedFileName})

\* host.ts 59-68 and 94-103: add the edge, creating the set on first use.
RecordEdge(deps, containingFilePath, resolvedFileName) ==
    IF containingFilePath \in DOMAIN deps
    THEN [deps EXCEPT ![containingFilePath] = @ \cup {resolvedFileName}]
    ELSE deps @@ (containingFilePath :> {resolvedFileName})

\* host.ts 57-70: for (const result of results) if (result) ...
RECURSIVE RecordResults(_, _, _, _)
RecordResults(results, i, containingFilePath, deps) ==
    IF i > Len(results) THEN deps
    ELSE RecordResults(results, i + 1, containingFilePath,
            IF results[i].defined
            THEN RecordEdge(deps, containingFilePath, results[i].resolvedFileName)
            ELSE deps)

\* A modifier that forgets to return the resolution.
resolvedModuleModifierNoReturn(processor, resolvedModule, moduleName, st) ==
    [result |-> Undefined,
     st |-> IF resolvedModule.defined /\ processor
            THEN [st EXCEPT !.pipeline = Append(@, <<moduleName, resolvedModule>>)]
            ELSE st]

\* A modifier that hands failed resolutions to the pipeline too.
resolvedModuleModifierNoGuard(processor, resolvedModule, moduleName, st) ==
    [result |-> resolvedModule,
     st |-> IF processor
            THEN [st EXCEPT !.pipeline = Append(@, <<moduleName, resolvedModule>>)]
            ELSE st]

\* host.ts 151-157: the modifier augmentHostWithNgcc hands to
\* augmentResolveModuleNames, a closure over the processor it was given;
\* returns the result and the effects.
resolvedModuleModifier(processor, resolvedModule, moduleName, st) ==
    [result |-> resolvedModule,
     st |-> IF resolvedModule.defined /\ processor
            THEN [st EXCEPT !.pipeline = Append(@, <<moduleName, resolvedModule>>)]
            ELSE st]

IsDefined(result) == result.defined

\* A recorder that keys the graph by the raw containing file.
DependencyCollectionWrappedRawKey(r, containingFile) ==
    IF r.st.threw THEN r
    ELSE IF normalizePathThrows(containingFile) THEN Throw(r.st)
    ELSE [res |-> r.res,
          st |-> [r.st EXCEPT !.deps = RecordResults(r.res, 1, containingFile, @)]]

\* A recorder that returns the resolutions it recorded, not all of them.
DependencyCollectionWrappedReturnsRecorded(r, containingFile) ==
    IF r.st.threw THEN r
    ELSE IF normalizePathThrows(containingFile) THEN Throw(r.st)
    ELSE [res |-> SelectSeq(r.res, IsDefined),
          st |-> [r.st EXCEPT !.deps =
                    RecordResults(r.res, 1, normalizePath(containingFile), @)]]

\* A recorder that creates the key of the containing file before it looks at
\* the results.
DependencyCollectionWrappedEagerKey(r, containingFile) ==
    IF r.st.threw THEN r
    ELSE IF normalizePathThrows(containingFile) THEN Throw(r.st)
    ELSE [res |-> r.res,
          st |-> [r.st EXCEPT !.deps =
                    RecordResults(r.res, 1, normalizePath(containingFile),
                       IF normalizePath(containingFile) \in DOMAIN @ THEN @
                       ELSE @ @@ (normalizePath(containingFile) :> {}))]]

\* host.ts 49-72: the recorder around an existing resolveModuleNames;
\* r is what the wrapped resolver returned.
DependencyCollectionWrapped(r, containingFile) ==
    IF r.st.threw THEN r
    ELSE IF normalizePathThrows(containingFile) THEN Throw(r.st)
    ELSE [res |-> r.res,
          st |-> [r.st EXCEPT !.deps =
                    RecordResults(r.res, 1, normalizePath(containingFile), @)]]

\* host.ts 82-106: the recorder's fallback, one ts.resolveModuleName per name.
RECURSIVE DependencyCollectionFallback(_, _, _, _)
DependencyCollectionFallback(moduleNames, i, containingFile, acc) ==
    IF acc.st.threw \/ i > Len(moduleNames) THEN acc
    ELSE LET result == tsResolveModuleName(moduleNames[i], containingFile)
         IN  IF result.defined /\ normalizePathThrows(containingFile)
             THEN Throw(acc.st)
             ELSE DependencyCollectionFallback(moduleNames, i + 1, containingFile,
                    [res |-> Append(acc.res, result),
                     st |-> IF result.defined
                            THEN [acc.st EXCEPT !.deps =
                                    RecordEdge(@, normalizePath(containingFile),
                                               result.resolvedFileName)]
                            ELSE acc.st])

\* host.ts 226-245: augmentResolveModuleNames' fallback, installed by the k-th
\* augmentation.
RECURSIVE ResolveModuleNamesFallback(_, _, _, _, _)
ResolveModuleNamesFallback(k, moduleNames, i, containingFile, acc) ==
    IF i > Len(moduleNames) THEN acc
    ELSE LET result == tsResolveModuleName(moduleNames[i], containingFile)
             m == resolvedModuleModifier(ngcc[k], result, moduleNames[i], acc.st)
         IN  ResolveModuleNamesFallback(k, moduleNames, i + 1, containingFile,
                [res |-> Append(acc.res, m.result), st |-> m.st])

\* The first element of an array, undefined when the array is empty.
First(results) == IF Len(results) > 0 THEN results[1] ELSE Undefined

(***************************************************************************)
(* host.resolveModuleNames after the first k augmentations of `layers`.    *)
(* k = 0 is the base host's own resolver.                                  *)
(***************************************************************************)
RECURSIVE ResolveModuleNamesAt(_, _, _, _)
RECURSIVE ResolveModuleNamesWrapped(_, _, _, _, _)

\* A wrapper that hands the whole batch to the wrapped resolver for every name.
RECURSIVE ResolveModuleNamesWrappedWholeBatch(_, _, _, _, _)
ResolveModuleNamesWrappedWholeBatch(k, moduleNames, i, containingFile, acc) ==
    IF acc.st.threw \/ i > Len(moduleNames) THEN acc
    ELSE LET r == ResolveModuleNamesAt(k - 1, moduleNames, containingFile, acc.st)
             m == resolvedModuleModifier(ngcc[k], First(r.res), moduleNames[i], r.st)
         IN  IF r.st.threw THEN Throw(r.st)
             ELSE ResolveModuleNamesWrappedWholeBatch(k, moduleNames, i + 1,
                    containingFile, [res |-> Append(acc.res, m.result), st |-> m.st])

\* A wrapper that takes the names off the array it was given, one
\* moduleNames.shift() per turn of its loop.  The array is the caller's own when
\* every augmentation applied later is a recorder, which hands the array on as
\* it got it.
ResolveModuleNamesWrappedShifting(k, moduleNames, i, containingFile, acc) ==
    IF acc.st.threw \/ i > Len(moduleNames) THEN acc
    ELSE LET r == ResolveModuleNamesAt(k - 1, <<moduleNames[i]>>, containingFile, acc.st)
             m == resolvedModuleModifier(ngcc[k], First(r.res), moduleNames[i], r.st)
             st1 == IF /\ \A j \in (k + 1)..Len(layers) : layers[j] = "dep"
                       /\ m.st.batch /= <<>>
                    THEN [m.st EXCEPT !.batch = Tail(@)]
                    ELSE m.st
         IN  IF r.st.threw THEN Throw(r.st)
             ELSE ResolveModuleNamesWrapped(k, moduleNames, i + 1, containingFile,
                    [res |-> Append(acc.res, m.result), st |-> st1])

\* host.ts 218-224: one call of the wrapped resolver per name, with [name].
ResolveModuleNamesWrapped(k, moduleNames, i, containingFile, acc) ==
    IF acc.st.threw \/ i > Len(moduleNames) THEN acc
    ELSE LET r == ResolveModuleNamesAt(k - 1, <<moduleNames[i]>>, containingFile, acc.st)
             m == resolvedModuleModifier(ngcc[k], First(r.res), moduleNames[i], r.st)
         IN  IF r.st.threw THEN Throw(r.st)
             ELSE ResolveModuleNamesWrapped(k, moduleNames, i + 1, containingFile,
                    [res |-> Append(acc.res, m.result), st |-> m.st])

\* An augmentation that tests the base host, not the host as it is now, for an
\* existing resolveModuleNames: on a host without one every layer installs its
\* fallback.
ResolveModuleNamesAtBaseTest(k, moduleNames, containingFile, st) ==
    IF k = 0
    THEN [res |-> baseResolveModuleNames(moduleNames, containingFile),
          st |-> [st EXCEPT !.baseCalls = Append(@, moduleNames)]]
    ELSE IF ~hasNativeRMN
    THEN IF layers[k] = "dep"
         THEN DependencyCollectionFallback(moduleNames, 1, containingFile,
                    [res |-> <<>>, st |-> Enter(st, "dep", "fallback")])
         ELSE ResolveModuleNamesFallback(k, moduleNames, 1, containingFile,
                    [res |-> <<>>, st |-> Enter(st, "ngcc", "fallback")])
    ELSE IF layers[k] = "dep"
    THEN DependencyCollectionWrapped(
            ResolveModuleNamesAt(k - 1, moduleNames, containingFile,
                                 Enter(st, "dep", "wrap")), containingFile)
    ELSE ResolveModuleNamesWrapped(k, moduleNames, 1, containingFile,
                    [res |-> <<>>, st |-> Enter(st, "ngcc", "wrap")])

\* host.ts 42 and 216: the branch is chosen by host.resolveModuleNames as it is
\* when the augmentation is applied; only the first augmentation of a host
\* without the operation finds none.
ResolveModuleNamesAt(k, moduleNames, containingFile, st) ==
    IF k = 0
    THEN [res |-> baseResolveModuleNames(moduleNames, containingFile),
          st |-> [st EXCEPT !.baseCalls = Append(@, moduleNames)]]
    ELSE IF k = 1 /\ ~hasNativeRMN
    THEN IF layers[1] = "dep"
         THEN DependencyCollectionFallback(moduleNames, 1, containingFile,
                    [res |-> <<>>, st |-> Enter(st, "dep", "fallback")])
         ELSE ResolveModuleNamesFallback(k, moduleNames, 1, containingFile,
                    [res |-> <<>>, st |-> Enter(st, "ngcc", "fallback")])
    ELSE IF layers[k] = "dep"
    THEN DependencyCollectionWrapped(
            ResolveModuleNamesAt(k - 1, moduleNames, containingFile,
                                 Enter(st, "dep", "wrap")), containingFile)
    ELSE ResolveModuleNamesWrapped(k, moduleNames, 1, containingFile,
                    [res |-> <<>>, st |-> Enter(st, "ngcc", "wrap")])

(***************************************************************************)
(* host.resolveTypeReferenceDirectives after the first k augmentations of  *)
(* `layers`.  Only augmentHostWithNgcc replaces it.                        *)
(***************************************************************************)
\* host.ts 159: host.resolveTypeReferenceDirectives is there after the first k
\* augmentations: the base host's own, or one an earlier augmentHostWithNgcc
\* installed.
HasResolveTypeReferenceDirectives(k) ==
    hasNativeTRD \/ \E j \in 1..k : layers[j] = "ngcc"

\* host.ts 183-204: the fallback, one ts.resolveTypeReferenceDirective per name.
RECURSIVE ResolveTypeReferenceDirectivesFallback(_, _, _, _, _)
ResolveTypeReferenceDirectivesFallback(k, names, i, containingFile, acc) ==
    IF i > Len(names) THEN acc
    ELSE LET result == tsResolveTypeReferenceDirective(names[i], containingFile)
             st1 == IF result.defined /\ ngcc[k]
                    THEN [acc.st EXCEPT !.pipeline = Append(@, <<names[i], result>>)]
                    ELSE acc.st
         IN  ResolveTypeReferenceDirectivesFallback(k, names, i + 1, containingFile,
                [res |-> Append(acc.res, result), st |-> st1])

RECURSIVE ResolveTypeReferenceDirectivesAt(_, _, _, _)

\* host.ts 164-181: one call of the wrapped operation per name, with [name].
RECURSIVE ResolveTypeReferenceDirectivesWrapped(_, _, _, _, _)
ResolveTypeReferenceDirectivesWrapped(k, names, i, containingFile, acc) ==
    IF i > Len(names) THEN acc
    ELSE LET r == ResolveTypeReferenceDirectivesAt(k - 1, <<names[i]>>, containingFile,
                                                   acc.st)
             result == First(r.res)
             st1 == IF result.defined /\ ngcc[k]
                    THEN [r.st EXCEPT !.pipeline = Append(@, <<names[i], result>>)]
                    ELSE r.st
         IN  ResolveTypeReferenceDirectivesWrapped(k, names, i + 1, containingFile,
                [res |-> Append(acc.res, result), st |-> st1])

\* host.ts 159: the branch is chosen by host.resolveTypeReferenceDirectives as it
\* is when augmentHostWithNgcc is applied; the recorder leaves the operation
\* alone.
ResolveTypeReferenceDirectivesAt(k, names, containingFile, st) ==
    IF k = 0
    THEN [res |-> baseResolveTypeReferenceDirectives(names, containingFile),
          st |-> [st EXCEPT !.baseCalls = Append(@, names)]]
    ELSE IF layers[k] = "dep"
    THEN ResolveTypeReferenceDirectivesAt(k - 1, names, containingFile, st)
    ELSE IF HasResolveTypeReferenceDirectives(k - 1)
    THEN ResolveTypeReferenceDirectivesWrapped(k, names, 1, containingFile,
            [res |-> <<>>, st |-> Enter(st, "ngcc", "wrap")])
    ELSE ResolveTypeReferenceDirectivesFallback(k, names, 1, containingFile,
            [res |-> <<>>, st |-> Enter(st, "ngcc", "fallback")])

ResolveTypeReferenceDirectives(names, containingFile, st) ==
    ResolveTypeReferenceDirectivesAt(Len(layers), names, containingFile, st)

Applied(layer) == layer \in {layers[j] : j \in DOMAIN layers}

NoCall == [op |-> "none", names |-> <<>>, containingFile |-> <<>>, results |-> <<>>,
           threw |-> FALSE, pipeline |-> <<>>, baseCalls |-> <<>>, entered |-> <<>>,
           batch |-> <<>>]

ResolutionInit ==
    \* A base host implements both resolution operations or neither.
    /\ hasNativeRMN \in BOOLEAN
    /\ hasNativeTRD = hasNativeRMN
    /\ layers = <<>>
    /\ ngcc = <<>>
    /\ dependencies = <<>>
    /\ installed \in {{"pkg-a"}, {"pkg-a", "pkg-b"}}
    /\ lastCall = NoCall

\* augmentHostWithDependencyCollection(host, dependencies), host.ts 37-109.
\* The code does not look at what an earlier augmentation installed: the
\* recorder may be applied again, around its own earlier wrapper.
AugmentHostWithDependencyCollectionUpTo(n) ==
    /\ Len(layers) < n
    /\ layers' = Append(layers, "dep")
    /\ ngcc' = Append(ngcc, FALSE)
    /\ lastCall' = NoCall
    /\ UNCHANGED <<hasNativeRMN, hasNativeTRD, dependencies, installed>>

AugmentHostWithDependencyCollection ==
    AugmentHostWithDependencyCollectionUpTo(MaxLayers)

\* augmentHostWithNgcc(host, ngcc), host.ts 144-206.
AugmentHostWithNgccUpTo(n) ==
    /\ Len(layers) < n
    /\ \E processor \in BOOLEAN : ngcc' = Append(ngcc, processor)
    /\ layers' = Append(layers, "ngcc")
    /\ lastCall' = NoCall
    /\ UNCHANGED <<hasNativeRMN, hasNativeTRD, dependencies, installed>>

AugmentHostWithNgcc == AugmentHostWithNgccUpTo(MaxLayers)

SuccessfulEdges(results, containingFile) ==
    {<<normalizePath(containingFile), results[i].resolvedFileName>> :
        i \in {j \in DOMAIN results : results[j].defined}}

\* The compiler driver calls host.resolveModuleNames(moduleNames, containingFile).
CallResolveModuleNames(files) ==
    /\ hasNativeRMN \/ layers /= <<>>
    /\ \E moduleNames \in Batches(ModuleNames), containingFile \in files :
         \E r \in {ResolveModuleNamesAt(Len(layers), moduleNames, containingFile,
                                       Given(Effects(dependencies), moduleNames))} :
             /\ dependencies' = r.st.deps
             /\ lastCall' = [op |-> "resolveModuleNames", names |-> moduleNames,
                             containingFile |-> containingFile, results |-> r.res,
                             threw |-> r.st.threw, pipeline |-> r.st.pipeline,
                             baseCalls |-> r.st.baseCalls, entered |-> r.st.entered,
                             batch |-> r.st.batch]
    /\ UNCHANGED <<hasNativeRMN, hasNativeTRD, layers, ngcc, installed>>

\* The compiler driver calls host.resolveTypeReferenceDirectives(names, containingFile).
CallResolveTypeReferenceDirectives ==
    /\ hasNativeTRD \/ Applied("ngcc")
    /\ \E names \in Batches(TypeNames), containingFile \in {AppTs} :
         \E r \in {ResolveTypeReferenceDirectives(names, containingFile,
                                                 Given(Effects(dependencies), names))} :
             /\ dependencies' = r.st.deps
             /\ lastCall' = [op |-> "resolveTypeReferenceDirectives", names |-> names,
                             containingFile |-> containingFile, results |-> r.res,
                             threw |-> r.st.threw, pipeline |-> r.st.pipeline,
                             baseCalls |-> r.st.baseCalls, entered |-> r.st.entered,
                             batch |-> r.st.batch]
    /\ UNCHANGED <<hasNativeRMN, hasNativeTRD, layers, ngcc, installed>>

\* The file system under the resolution changes: pkg-b is installed or removed.
ChangeInstalled ==
    /\ installed' = IF "pkg-b" \in installed THEN installed \ {"pkg-b"}
                    ELSE installed \cup {"pkg-b"}
    /\ lastCall' = NoCall
    /\ UNCHANGED <<hasNativeRMN, hasNativeTRD, layers, ngcc, dependencies>>

(***************************************************************************)
(* The source cache: augmentHostWithCaching, host.ts 111-142.              *)
(***************************************************************************)
VARIABLES
    cachingApplied,  \* augmentHostWithCaching has replaced host.getSourceFile
    cache,           \* the Map given to augmentHostWithCaching: file name -> handle
    hostFiles,       \* the underlying host's files: file name -> revision, 0 when absent
    created,         \* the SourceFile objects the underlying host has created; the
                     \* identity of a handle is its index here
    lastGet          \* the last call of host.getSourceFile and what it did

cacheVars == <<cachingApplied, cache, hostFiles, created, lastGet>>

CachePaths == {AppTs, AppTsWin}

\* No SourceFile: getSourceFile returned undefined.
NoFile == 0

NoGet == [tick |-> 0, called |-> FALSE, augmented |-> FALSE, fileName |-> <<>>,
          shouldCreateNewSourceFile |-> FALSE, result |-> NoFile,
          delegateFlags |-> <<>>, underlying |-> 0, hadEntry |-> FALSE,
          afterForcedAbsence |-> FALSE]

CacheInit ==
    /\ cachingApplied = FALSE
    /\ cache = <<>>
    /\ hostFiles \in [CachePaths -> 0..MaxRevision]
    /\ created = <<>>
    /\ lastGet = NoGet

CacheIdle ==
    /\ cachingApplied = FALSE
    /\ cache = <<>>
    /\ hostFiles = [f \in CachePaths |-> 0]
    /\ created = <<>>
    /\ lastGet = NoGet

\* The underlying host's getSourceFile: a new SourceFile of the file's present
\* text, undefined when the file cannot be read.
baseGetSourceFile(fileName, shouldCreateNewSourceFile, objects) ==
    IF hostFiles[fileName] = 0
    THEN [file |-> NoFile, objects |-> objects]
    ELSE [file |-> Len(objects) + 1,
          objects |-> Append(objects, [fileName |-> fileName,
                                       revision |-> hostFiles[fileName]])]

\* A test with the flag inverted.
CacheHitInverted(fileName, shouldCreateNewSourceFile) ==
    shouldCreateNewSourceFile /\ fileName \in DOMAIN cache

\* host.ts 123: the test that answers from the cache.
CacheHit(fileName, shouldCreateNewSourceFile) ==
    ~shouldCreateNewSourceFile /\ fileName \in DOMAIN cache

\* A delegate call that forwards the caller's flag.
DelegateFlagForwarded(shouldCreateNewSourceFile) == shouldCreateNewSourceFile

\* host.ts 127-134: the flag handed to the underlying getSourceFile.
DelegateFlag(shouldCreateNewSourceFile) == TRUE

\* A store that keeps the first handle of a file name.
CacheStoreKeepsFirst(table, fileName, file) ==
    IF file /= NoFile /\ fileName \notin DOMAIN table
    THEN table @@ (fileName :> file)
    ELSE table

\* A store that drops the entry when the file cannot be read.
CacheStoreEvicting(table, fileName, file) ==
    IF file /= NoFile
    THEN IF fileName \in DOMAIN table
         THEN [table EXCEPT ![fileName] = file]
         ELSE table @@ (fileName :> file)
    ELSE [f \in DOMAIN table \ {fileName} |-> table[f]]

\* host.ts 136-138: cache.set(fileName, file) when file is truthy.
CacheStore(table, fileName, file) ==
    IF file /= NoFile
    THEN IF fileName \in DOMAIN table
         THEN [table EXCEPT ![fileName] = file]
         ELSE table @@ (fileName :> file)
    ELSE table

\* A wrapper that, after delegating, answers with the entry it had before.
cachedGetSourceFileStale(fileName, shouldCreateNewSourceFile) ==
    IF CacheHit(fileName, shouldCreateNewSourceFile)
    THEN [file |-> cache[fileName], table |-> cache, objects |-> created,
          delegateFlags |-> <<>>]
    ELSE LET flag == DelegateFlag(shouldCreateNewSourceFile)
             b == baseGetSourceFile(fileName, flag, created)
         IN  [file |-> IF fileName \in DOMAIN cache THEN cache[fileName] ELSE b.file,
              table |-> CacheStore(cache, fileName, b.file),
              objects |-> b.objects, delegateFlags |-> <<flag>>]

\* host.ts 116-141: the replaced host.getSourceFile.
cachedGetSourceFile(fileName, shouldCreateNewSourceFile) ==
    IF CacheHit(fileName, shouldCreateNewSourceFile)
    THEN [file |-> cache[fileName], table |-> cache, objects |-> created,
          delegateFlags |-> <<>>]
    ELSE LET flag == DelegateFlag(shouldCreateNewSourceFile)
             b == baseGetSourceFile(fileName, flag, created)
         IN  [file |-> b.file, table |-> CacheStore(cache, fileName, b.file),
              objects |-> b.objects, delegateFlags |-> <<flag>>]

\* augmentHostWithCaching(host, cache), host.ts 111-142.
\* Applied again with the same table, the new wrapper answers hits from the
\* table and delegates, with the flag true, to the earlier wrapper, which then
\* delegates to the host: the two behave as one.
AugmentHostWithCaching ==
    /\ cachingApplied' = TRUE
    /\ UNCHANGED <<cache, hostFiles, created, lastGet>>

\* The compiler driver calls host.getSourceFile(fileName, ..., shouldCreateNewSourceFile).
CallGetSourceFileOf(fileNames) ==
    /\ Len(created) < MaxHandles
    /\ \E fileName \in fileNames, shouldCreateNewSourceFile \in BOOLEAN :
         LET r == IF cachingApplied
                  THEN cachedGetSourceFile(fileName, shouldCreateNewSourceFile)
                  ELSE LET b == baseGetSourceFile(fileName, shouldCreateNewSourceFile,
                                                  created)
                       IN  [file |-> b.file, table |-> cache, objects |-> b.objects,
                            delegateFlags |-> <<shouldCreateNewSourceFile>>]
         IN  /\ cache' = r.table
             /\ created' = r.objects
             /\ lastGet' = [tick |-> 1 - lastGet.tick, called |-> TRUE,
                            augmented |-> cachingApplied, fileName |-> fileName,
                            shouldCreateNewSourceFile |-> shouldCreateNewSourceFile,
                            result |-> r.file, delegateFlags |-> r.delegateFlags,
                            underlying |-> hostFiles[fileName],
                            hadEntry |-> fileName \in DOMAIN cache,
                            afterForcedAbsence |->
                               /\ lastGet.called /\ lastGet.augmented
                               /\ lastGet.fileName = fileName
                               /\ lastGet.shouldCreateNewSourceFile
                               /\ lastGet.hadEntry /\ lastGet.result = NoFile]
    /\ UNCHANGED <<cachingApplied, hostFiles>>

CallGetSourceFile == CallGetSourceFileOf(CachePaths)

\* A file of the underlying host is written, created or deleted.
ChangeHostFile ==
    /\ \E fileName \in CachePaths, revision \in 0..MaxRevision :
         /\ revision /= hostFiles[fileName]
         /\ hostFiles' = [hostFiles EXCEPT ![fileName] = revision]
    /\ UNCHANGED <<cachingApplied, cache, created, lastGet>>

(***************************************************************************)
(* The content versioner: augmentProgramWithVersioning, host.ts 7-21.      *)
(***************************************************************************)
VARIABLES
    versioningApplied,  \* augmentProgramWithVersioning has replaced getSourceFiles
    sourceFiles,        \* the program's SourceFile objects, in the order the base
                        \* getSourceFiles returns them; each has text and version
    lastEnumeration     \* the last call of program.getSourceFiles and what it did

versionVars == <<versioningApplied, sourceFiles, lastEnumeration>>

\* file.version === undefined
NoVersion == <<>>

\* A version the handle got from elsewhere before this layer saw it.
HostVersion == <<"host", 1>>

Texts == UNION {[1..n -> {0, 1}] : n \in 0..MaxTextLen}

\* createHash('sha256').update(text).digest('hex'): the digest as an injective
\* code of the text.
RECURSIVE Sha256(_)
Sha256(text) ==
    IF text = <<>> THEN 1
    ELSE 2 * Sha256(SubSeq(text, 1, Len(text) - 1)) + text[Len(text)]

\* A digest that tells texts apart by their length only.
DigestOfLength(text) == <<"sha256", Len(text)>>

Digest(text) == <<"sha256", Sha256(text)>>

Handles == [text : Texts, version : {NoVersion, HostVersion}]

NoEnumeration == [called |-> FALSE, augmented |-> FALSE, before |-> <<>>, files |-> <<>>]

VersionInit ==
    /\ versioningApplied = FALSE
    /\ sourceFiles \in UNION {[1..n -> Handles] : n \in 0..MaxFiles}
    /\ lastEnumeration = NoEnumeration

VersionIdle ==
    /\ versioningApplied = FALSE
    /\ sourceFiles = <<>>
    /\ lastEnumeration = NoEnumeration

\* A loop body without the test for an existing version.
VersionOfAlwaysHashed(file) == Digest(file.text)

\* host.ts 14-16: the version a handle has after the loop body.
VersionOf(file) ==
    IF file.version = NoVersion THEN Digest(file.text) ELSE file.version

IsUnversioned(file) == file.version = NoVersion

\* An enumeration that returns copies of the handles it versioned and leaves
\* out the others.
AssignVersionsToCopies(files) ==
    LET unversioned == SelectSeq(files, IsUnversioned)
    IN  [i \in DOMAIN unversioned |->
            [unversioned[i] EXCEPT !.version = VersionOf(unversioned[i])]]

\* host.ts 13-17: for (const file of files) ...
AssignVersions(files) ==
    [i \in DOMAIN files |-> [files[i] EXCEPT !.version = VersionOf(files[i])]]

\* augmentProgramWithVersioning(program), host.ts 7-21.
\* Applied again, the new wrapper finds every handle versioned by the earlier
\* one: the two behave as one.
AugmentProgramWithVersioning ==
    /\ versioningApplied' = TRUE
    /\ UNCHANGED <<sourceFiles, lastEnumeration>>

\* A caller enumerates program.getSourceFiles(); the handles are returned by
\* identity, here their positions in sourceFiles.
CallGetSourceFiles ==
    /\ sourceFiles' = IF versioningApplied THEN AssignVersions(sourceFiles)
                      ELSE sourceFiles
    /\ lastEnumeration' = [called |-> TRUE, augmented |-> versioningApplied,
                           before |-> sourceFiles,
                           files |-> [i \in DOMAIN sourceFiles |-> i]]
    /\ UNCHANGED versioningApplied

(***************************************************************************)
(* The specifications: one per augmented surface.  The surfaces share no   *)
(* state, so each is explored with the others at rest.                     *)
(***************************************************************************)
vars == <<resolutionVars, cacheVars, versionVars>>

ResolutionIdle ==
    /\ hasNativeRMN = FALSE
    /\ hasNativeTRD = FALSE
    /\ layers = <<>>
    /\ ngcc = <<>>
    /\ dependencies = <<>>
    /\ installed = {"pkg-a"}
    /\ lastCall = NoCall

ResolveModuleNamesCall == CallResolveModuleNames(ContainingFiles)

ResolveModuleNamesCallAnyPath ==
    CallResolveModuleNames(ContainingFiles \cup {MalformedPath})

Init == ResolutionInit /\ CacheIdle /\ VersionIdle

Next ==
    \/ AugmentHostWithDependencyCollection /\ UNCHANGED <<cacheVars, versionVars>>
    \/ AugmentHostWithNgcc /\ UNCHANGED <<cacheVars, versionVars>>
    \/ ResolveModuleNamesCall /\ UNCHANGED <<cacheVars, versionVars>>
    \/ CallResolveTypeReferenceDirectives /\ UNCHANGED <<cacheVars, versionVars>>
    \/ ChangeInstalled /\ UNCHANGED <<cacheVars, versionVars>>

\* Resolution through the augmented host, containing files well-formed.
Spec == Init /\ [][Next]_vars

NextAnyPath ==
    \/ AugmentHostWithDependencyCollection /\ UNCHANGED <<cacheVars, versionVars>>
    \/ AugmentHostWithNgcc /\ UNCHANGED <<cacheVars, versionVars>>
    \/ ResolveModuleNamesCallAnyPath /\ UNCHANGED <<cacheVars, versionVars>>
    \/ ChangeInstalled /\ UNCHANGED <<cacheVars, versionVars>>

\* Resolution where the driver may also pass a path the path helper rejects.
SpecAnyPath == Init /\ [][NextAnyPath]_vars

CacheSpecInit == ResolutionIdle /\ CacheInit /\ VersionIdle

CacheNext ==
    \/ AugmentHostWithCaching /\ UNCHANGED <<resolutionVars, versionVars>>
    \/ CallGetSourceFile /\ UNCHANGED <<resolutionVars, versionVars>>
    \/ ChangeHostFile /\ UNCHANGED <<resolutionVars, versionVars>>

\* Source-file retrieval through the host.
SpecCache == CacheSpecInit /\ [][CacheNext]_vars

VersionSpecInit == ResolutionIdle /\ CacheIdle /\ VersionInit

VersionNext ==
    \/ AugmentProgramWithVersioning /\ UNCHANGED <<resolutionVars, cacheVars>>
    \/ CallGetSourceFiles /\ UNCHANGED <<resolutionVars, cacheVars>>

\* Enumeration of the program's source files.
SpecVersioning == VersionSpecInit /\ [][VersionNext]_vars

LayeredAugmentHostWithDependencyCollection ==
    AugmentHostWithDependencyCollectionUpTo(MaxLayers + 1)

LayeredAugmentHostWithNgcc == AugmentHostWithNgccUpTo(MaxLayers + 1)

LayeredResolveModuleNamesCall == CallResolveModuleNames({AppTsWin})

LayeredNext ==
    \/ LayeredAugmentHostWithDependencyCollection /\ UNCHANGED <<cacheVars, versionVars>>
    \/ LayeredAugmentHostWithNgcc /\ UNCHANGED <<cacheVars, versionVars>>
    \/ LayeredResolveModuleNamesCall /\ UNCHANGED <<cacheVars, versionVars>>

\* resolveModuleNames through deeper stacks of augmentations, for one containing
\* file and a file system that does not change.
SpecLayered == Init /\ [][LayeredNext]_vars

HostInit ==
    /\ ResolutionInit /\ installed = {"pkg-a"}
    /\ CacheInit /\ hostFiles = [f \in CachePaths |-> 1]
    /\ VersionIdle

HostResolveModuleNamesCall == CallResolveModuleNames({AppTsWin})

HostGetSourceFileCall == CallGetSourceFileOf({AppTs})

HostNext ==
    \/ AugmentHostWithDependencyCollection /\ UNCHANGED <<cacheVars, versionVars>>
    \/ AugmentHostWithNgcc /\ UNCHANGED <<cacheVars, versionVars>>
    \/ AugmentHostWithCaching /\ UNCHANGED <<resolutionVars, versionVars>>
    \/ HostResolveModuleNamesCall /\ UNCHANGED <<cacheVars, versionVars>>
    \/ CallResolveTypeReferenceDirectives /\ UNCHANGED <<cacheVars, versionVars>>
    \/ HostGetSourceFileCall /\ UNCHANGED <<resolutionVars, versionVars>>

\* One host with the three host augmentations, applied in any order and at any
\* time between the calls.
SpecHost == HostInit /\ [][HostNext]_vars

(***************************************************************************)
(* The properties.                                                         *)
(***************************************************************************)
HasEdge(deps, e) == e[1] \in DOMAIN deps /\ e[2] \in deps[e[1]]

Edges(deps) == UNION {{<<k, t>> : t \in deps[k]} : k \in DOMAIN deps}

\* The resolutions of a batch, name by name, by the underlying resolution.
ResolutionsOf(op, names, containingFile) ==
    [i \in 1..Len(names) |->
        IF op = "resolveModuleNames"
        THEN ResolveModuleIn(installed, names[i], containingFile)
        ELSE ResolveTypeIn(TypesInstalled, names[i], containingFile)]

\* The calls a pipeline sees for a batch: one per successful resolution, in order,
\* with the requested name.
RECURSIVE PipelineOf(_, _, _)
PipelineOf(names, results, i) ==
    IF i > Len(names) THEN <<>>
    ELSE (IF results[i].defined THEN <<<<names[i], results[i]>>>> ELSE <<>>)
         \o PipelineOf(names, results, i + 1)

\* The post-processors on the host that were given a processor.
Processors == {k \in DOMAIN layers : layers[k] = "ngcc" /\ ngcc[k]}

\* The post-processors on the host.
NgccLayers == {k \in DOMAIN layers : layers[k] = "ngcc"}

\* The calls a pipeline sees when n wrappers hand it each successful resolution
\* of a batch: for every successful resolution, in the order of the batch, n
\* calls with the requested name.
RECURSIVE PipelineTimes(_, _, _, _)
PipelineTimes(names, results, i, n) ==
    IF i > Len(names) THEN <<>>
    ELSE (IF results[i].defined THEN [j \in 1..n |-> <<names[i], results[i]>>] ELSE <<>>)
         \o PipelineTimes(names, results, i + 1, n)

WrappedCall ==
    \/ lastCall.op = "resolveModuleNames" /\ layers /= <<>>
    \/ lastCall.op = "resolveTypeReferenceDirectives" /\ Applied("ngcc")

\* C1: a version a handle carries is never changed by a later enumeration,
\* whether it was assigned by an earlier enumeration or was there before.
C1_VersionKept ==
    [][\A i \in DOMAIN sourceFiles :
          sourceFiles[i].version /= NoVersion =>
             /\ i \in DOMAIN sourceFiles'
             /\ sourceFiles'[i].version = sourceFiles[i].version]_vars

\* An augmented enumeration met a handle versioned by an earlier enumeration and
\* a handle versioned from elsewhere, and both kept their versions.
C1_Witness ==
    /\ lastEnumeration.called /\ lastEnumeration.augmented
    /\ \E i, j \in DOMAIN sourceFiles :
          /\ lastEnumeration.before[i].version = Digest(sourceFiles[i].text)
          /\ sourceFiles[i].version = Digest(sourceFiles[i].text)
          /\ lastEnumeration.before[j].version = HostVersion
          /\ sourceFiles[j].version = HostVersion

\* C2: a wrapped resolveModuleNames or resolveTypeReferenceDirectives returns one
\* element per input name, the i-th being the resolution of the i-th name, with
\* or without a batched resolver on the base host.
C2_ResultShape ==
    WrappedCall =>
        /\ ~lastCall.threw
        /\ Len(lastCall.results) = Len(lastCall.names)
        /\ \A i \in 1..Len(lastCall.names) :
              lastCall.results[i] =
                 ResolutionsOf(lastCall.op, lastCall.names, lastCall.containingFile)[i]

\* Both augmentations on a host without a batched resolver: a batch whose first
\* name fails and whose second resolves.
C2_Witness ==
    /\ lastCall.op = "resolveModuleNames"
    /\ ~hasNativeRMN /\ Len(layers) = 2
    /\ lastCall.names = <<"pkg-b", "pkg-a">>
    /\ lastCall.results = <<Undefined, Resolved(PkgADts)>>

\* C3: after a recorded call the graph holds an edge for each successful
\* resolution, under the normalized containing file; a call whose edges are all
\* present leaves the graph as it was; no step removes an edge.
C3_GraphMonotone ==
    [][/\ \A k \in DOMAIN dependencies :
             k \in DOMAIN dependencies' /\ dependencies[k] \subseteq dependencies'[k]
       /\ (lastCall'.op = "resolveModuleNames" /\ Applied("dep")) =>
             LET new == SuccessfulEdges(lastCall'.results, lastCall'.containingFile)
             IN  /\ \A e \in new : HasEdge(dependencies', e)
                 /\ (\A e \in new : HasEdge(dependencies, e)) =>
                       dependencies' = dependencies]_vars

\* pkg-a resolved again from /src/app.ts; the edge to pkg-b, since removed from
\* the file system, is still in the graph.
C3_Witness ==
    /\ lastCall.op = "resolveModuleNames" /\ Applied("dep")
    /\ lastCall.names = <<"pkg-a">> /\ lastCall.containingFile = AppTsWin
    /\ lastCall.results = <<Resolved(PkgADts)>>
    /\ installed = {"pkg-a"}
    /\ AppTs \in DOMAIN dependencies
    /\ dependencies[AppTs] = {PkgADts, PkgBDts}

\* C4: the graph starts empty and an edge X -> Y enters it only in a call whose
\* containing file normalizes to X and which returns Y as a successful
\* resolution.  On a host without a batched resolver, [pkg-a, pkg-b] from
\* /src/app.ts with pkg-b missing returns [resolution of pkg-a, undefined] and
\* adds exactly the edge /src/app.ts -> target of pkg-a.
C4_OnlyResolvedEdges ==
    /\ dependencies = <<>>
    /\ [][/\ \A e \in Edges(dependencies') \ Edges(dependencies) :
                /\ lastCall'.op = "resolveModuleNames"
                /\ normalizePath(lastCall'.containingFile) = e[1]
                /\ \E i \in DOMAIN lastCall'.results :
                      lastCall'.results[i] = Resolved(e[2])
          /\ ( /\ lastCall'.op = "resolveModuleNames"
               /\ ~hasNativeRMN /\ Applied("dep")
               /\ lastCall'.names = <<"pkg-a", "pkg-b">>
               /\ lastCall'.containingFile = AppTs
               /\ installed = {"pkg-a"} ) =>
                /\ lastCall'.results = <<Resolved(PkgADts), Undefined>>
                /\ Edges(dependencies') = Edges(dependencies) \cup {<<AppTs, PkgADts>>}]_vars

\* The scenario of the specification, on a fresh graph.
C4_Witness ==
    /\ lastCall.op = "resolveModuleNames"
    /\ ~hasNativeRMN /\ layers = <<"dep">>
    /\ lastCall.names = <<"pkg-a", "pkg-b">>
    /\ lastCall.containingFile = AppTs
    /\ lastCall.results = <<Resolved(PkgADts), Undefined>>
    /\ Edges(dependencies) = {<<AppTs, PkgADts>>}

\* C5: when an augmented retrieval returned a handle for a path, the next
\* retrieval of that path that does not force a fresh read returns the same
\* handle object and does not call the underlying getSourceFile.
C5_SecondRetrievalCached ==
    [][( /\ lastGet'.tick /= lastGet.tick
         /\ lastGet.called /\ lastGet.augmented /\ lastGet.result /= NoFile
         /\ lastGet'.fileName = lastGet.fileName
         /\ ~lastGet'.shouldCreateNewSourceFile ) =>
            /\ lastGet'.result = lastGet.result
            /\ lastGet'.delegateFlags = <<>>
            /\ created' = created]_vars

\* A retrieval answered from the cache after the file changed underneath.
C5_Witness ==
    /\ lastGet.called /\ lastGet.augmented
    /\ ~lastGet.shouldCreateNewSourceFile
    /\ lastGet.delegateFlags = <<>>
    /\ lastGet.result /= NoFile
    /\ cache[lastGet.fileName] = lastGet.result
    /\ hostFiles[lastGet.fileName] /= created[lastGet.result].revision

\* C6: a forced augmented retrieval calls the underlying getSourceFile even when
\* the path is cached, and every call the wrapper makes to it passes the
\* create-new flag as true.
C6_ForcedDelegates ==
    (lastGet.called /\ lastGet.augmented) =>
        /\ lastGet.shouldCreateNewSourceFile => lastGet.delegateFlags /= <<>>
        /\ \A i \in DOMAIN lastGet.delegateFlags : lastGet.delegateFlags[i] = TRUE

\* A forced retrieval of a cached path.
C6_Witness ==
    /\ lastGet.called /\ lastGet.augmented
    /\ lastGet.shouldCreateNewSourceFile /\ lastGet.hadEntry
    /\ lastGet.delegateFlags = <<TRUE>>

\* What a returned value is to the caller: absence, or a handle of a file name
\* and text.
SameAsUnderlying(get) ==
    IF get.underlying = 0 THEN get.result = NoFile
    ELSE /\ get.result /= NoFile
         /\ created[get.result] = [fileName |-> get.fileName, revision |-> get.underlying]

\* C7 as stated: every augmented retrieval returns what the underlying host
\* would return at that moment.
C7_AlwaysUnderlying ==
    (lastGet.called /\ lastGet.augmented) => SameAsUnderlying(lastGet)

\* C7 amended: an augmented retrieval that calls the underlying host (forced, or
\* a miss) returns what the underlying host returns at that moment; a retrieval
\* that does not force and finds the path cached returns the cached handle.
C7_UnderlyingOrCached ==
    (lastGet.called /\ lastGet.augmented) =>
        IF lastGet.shouldCreateNewSourceFile \/ ~lastGet.hadEntry
        THEN lastGet.delegateFlags /= <<>> /\ SameAsUnderlying(lastGet)
        ELSE lastGet.delegateFlags = <<>> /\ lastGet.result = cache[lastGet.fileName]

\* A retrieval that does not force, answered with the cached handle of a file
\* the underlying host can no longer read.
C7_Witness ==
    /\ lastGet.called /\ lastGet.augmented
    /\ lastGet.hadEntry /\ ~lastGet.shouldCreateNewSourceFile
    /\ lastGet.underlying = 0
    /\ lastGet.result /= NoFile
    /\ lastGet.result = cache[lastGet.fileName]

\* C8 as stated: on a host with the post-processor applied, every time with a
\* processor, a call hands the pipeline each successful resolution of the batch
\* exactly once, with the name requested, and no failed one; a failed
\* resolution is returned as absence.
C8_ExactlyOnce ==
    (lastCall.op /= "none" /\ Applied("ngcc") /\ Processors = NgccLayers) =>
        /\ lastCall.pipeline = PipelineOf(lastCall.names, lastCall.results, 1)
        /\ \A i \in DOMAIN lastCall.results :
              ~ResolutionsOf(lastCall.op, lastCall.names, lastCall.containingFile)[i].defined
                 => lastCall.results[i] = Undefined

\* C8: on a host with the post-processor applied, a call hands the pipeline
\* each successful resolution of the batch once for every post-processor
\* wrapper on the host that was given a processor, with the name requested, and
\* never a failed one; a failed resolution is returned as absence.
C8_PipelinePassThrough ==
    (lastCall.op /= "none" /\ Applied("ngcc")) =>
        /\ lastCall.pipeline = PipelineTimes(lastCall.names, lastCall.results, 1,
                                             Cardinality(Processors))
        /\ \A i \in DOMAIN lastCall.results :
              ~ResolutionsOf(lastCall.op, lastCall.names, lastCall.containingFile)[i].defined
                 => lastCall.results[i] = Undefined

\* The post-processor applied twice, type references [node, jasmine], of which
\* jasmine is missing: node goes to the pipeline twice, jasmine never.
C8_Witness ==
    /\ lastCall.op = "resolveTypeReferenceDirectives"
    /\ layers = <<"ngcc", "ngcc">> /\ ngcc = <<TRUE, TRUE>>
    /\ lastCall.names = <<"node", "jasmine">>
    /\ lastCall.results = <<Resolved(NodeDts), Undefined>>
    /\ lastCall.pipeline = <<<<"node", Resolved(NodeDts)>>, <<"node", Resolved(NodeDts)>>>>

\* C9 as stated: when the edge cannot be recorded the recorder's resolveModuleNames
\* still returns the resolutions of the whole batch and no error reaches the caller.
C9_RecordingNeverFails ==
    (lastCall.op = "resolveModuleNames" /\ Applied("dep")) =>
        /\ ~lastCall.threw
        /\ lastCall.results =
              ResolutionsOf(lastCall.op, lastCall.names, lastCall.containingFile)

\* C10: on a base host with a batched resolver, the augmented resolveModuleNames
\* returns the sequence the base resolver returns for the same batch and
\* containing file.
C10_SameAsBase ==
    (lastCall.op = "resolveModuleNames" /\ hasNativeRMN /\ layers /= <<>>) =>
        /\ ~lastCall.threw
        /\ lastCall.results =
              baseResolveModuleNames(lastCall.names, lastCall.containingFile)

\* The recorder alone around a batched resolver: a batch with a failure in it.
C10_Witness ==
    /\ lastCall.op = "resolveModuleNames"
    /\ hasNativeRMN /\ layers = <<"dep">>
    /\ lastCall.names = <<"pkg-b", "pkg-a">>
    /\ lastCall.results = <<Undefined, Resolved(PkgADts)>>
    /\ lastCall.baseCalls = <<lastCall.names>>

IsNormalized(path) == normalizePath(path) = path

\* C11 as stated: every key of the graph and every member of every set is a
\* normalized path.
C11_GraphNormalized ==
    \A k \in DOMAIN dependencies :
        /\ IsNormalized(k)
        /\ \A t \in dependencies[k] : IsNormalized(t)

\* An augmented call of getSourceFile is taken in this step.
AugmentedGetStep == lastGet'.tick /= lastGet.tick /\ lastGet'.augmented

\* C12: when the augmented getSourceFile calls the underlying one and gets a
\* handle, the entry of exactly that raw file name becomes that handle, replacing
\* any earlier one; when it gets absence the cache stays as it is; no step
\* removes a key from the cache.
C12_CacheWrites ==
    [][/\ DOMAIN cache \subseteq DOMAIN cache'
       /\ AugmentedGetStep =>
             IF lastGet'.delegateFlags /= <<>> /\ lastGet'.result /= NoFile
             THEN /\ DOMAIN cache' = DOMAIN cache \cup {lastGet'.fileName}
                  /\ cache'[lastGet'.fileName] = lastGet'.result
                  /\ \A f \in DOMAIN cache \ {lastGet'.fileName} : cache'[f] = cache[f]
             ELSE cache' = cache]_vars

\* A forced retrieval replaced the entry of one raw file name; the entry of the
\* other spelling of the path is still the older handle.
C12_Witness ==
    /\ lastGet.called /\ lastGet.augmented
    /\ lastGet.hadEntry /\ lastGet.shouldCreateNewSourceFile
    /\ lastGet.result /= NoFile
    /\ DOMAIN cache = CachePaths
    /\ cache[lastGet.fileName] = lastGet.result
    /\ \A f \in CachePaths \ {lastGet.fileName} : cache[f] < lastGet.result

\* C13: on a host without resolveModuleNames the first augmentation installs a
\* complete fallback and every later one wraps what is installed: the call
\* resolves every name, never reaches a base resolver, enters the first
\* augmentation in its fallback branch and every other in its wrapping branch,
\* and keeps the behaviour of each.  The same holds for the fallback of
\* resolveTypeReferenceDirectives.
C13_FallbackThenWrap ==
    /\ (lastCall.op = "resolveModuleNames" /\ ~hasNativeRMN) =>
          /\ layers /= <<>>
          /\ ~lastCall.threw
          /\ lastCall.results =
                ResolutionsOf(lastCall.op, lastCall.names, lastCall.containingFile)
          /\ lastCall.baseCalls = <<>>
          /\ lastCall.entered /= <<>>
          /\ lastCall.entered[1] =
                <<layers[Len(layers)], IF Len(layers) = 1 THEN "fallback" ELSE "wrap">>
          /\ \A i \in DOMAIN lastCall.entered :
                /\ lastCall.entered[i][2] = "fallback" =>
                      lastCall.entered[i][1] = layers[1]
                /\ lastCall.entered[i][2] = "wrap" =>
                      \E j \in 2..Len(layers) : layers[j] = lastCall.entered[i][1]
          /\ lastCall.names /= <<>> =>
                /\ \E i \in DOMAIN lastCall.entered :
                      lastCall.entered[i] = <<layers[1], "fallback">>
                /\ \A j \in DOMAIN layers :
                      \E i \in DOMAIN lastCall.entered : lastCall.entered[i][1] = layers[j]
          /\ Applied("dep") =>
                \A e \in SuccessfulEdges(lastCall.results, lastCall.containingFile) :
                   HasEdge(dependencies, e)
          /\ lastCall.pipeline = PipelineTimes(lastCall.names, lastCall.results, 1,
                                               Cardinality(Processors))
    /\ (lastCall.op = "resolveTypeReferenceDirectives" /\ ~hasNativeTRD) =>
          /\ Applied("ngcc")
          /\ lastCall.results =
                ResolutionsOf(lastCall.op, lastCall.names, lastCall.containingFile)
          /\ lastCall.baseCalls = <<>>
          /\ lastCall.entered /= <<>>
          /\ lastCall.entered[1] =
                <<"ngcc", IF Cardinality(NgccLayers) = 1 THEN "fallback" ELSE "wrap">>
          /\ \A i \in DOMAIN lastCall.entered : lastCall.entered[i][1] = "ngcc"
          /\ lastCall.names /= <<>> =>
                \E i \in DOMAIN lastCall.entered : lastCall.entered[i][2] = "fallback"
          /\ lastCall.pipeline = PipelineTimes(lastCall.names, lastCall.results, 1,
                                               Cardinality(Processors))

\* The post-processor installed the fallback and the recorder, applied later,
\* wrapped it: the edge is recorded and the pipeline is called.
C13_Witness ==
    /\ lastCall.op = "resolveModuleNames" /\ ~hasNativeRMN
    /\ layers = <<"ngcc", "dep">> /\ ngcc[1]
    /\ lastCall.names = <<"pkg-a", "pkg-b">>
    /\ lastCall.entered = <<<<"dep", "wrap">>, <<"ngcc", "fallback">>>>
    /\ lastCall.pipeline = <<<<"pkg-a", Resolved(PkgADts)>>>>
    /\ HasEdge(dependencies, <<normalizePath(lastCall.containingFile), PkgADts>>)

AugmentedEnumeration == lastEnumeration.called /\ lastEnumeration.augmented

\* C14 as stated: after an augmented enumeration every returned handle has a
\* version, and two returned handles have equal versions exactly when they
\* have identical text.
C14_VersionIffText ==
    AugmentedEnumeration =>
        \A i, j \in DOMAIN sourceFiles :
            /\ sourceFiles[i].version /= NoVersion
            /\ (sourceFiles[i].text = sourceFiles[j].text)
                  <=> (sourceFiles[i].version = sourceFiles[j].version)

\* C14 amended: after an augmented enumeration every returned handle has a
\* version; a handle that had none has the digest of its text, so that among
\* the handles versioned by this layer equal text means equal version and
\* different text different version; a handle that came with a version has
\* that version, whatever its text.
C14_DigestWhereAssigned ==
    AugmentedEnumeration =>
        /\ \A i \in DOMAIN sourceFiles :
              /\ sourceFiles[i].version /= NoVersion
              /\ sourceFiles[i].version =
                    IF lastEnumeration.before[i].version = NoVersion
                    THEN Digest(sourceFiles[i].text)
                    ELSE lastEnumeration.before[i].version
        /\ \A i, j \in DOMAIN sourceFiles :
              (sourceFiles[i].version /= HostVersion /\ sourceFiles[j].version /= HostVersion)
                 => ((sourceFiles[i].text = sourceFiles[j].text)
                        <=> (sourceFiles[i].version = sourceFiles[j].version))

\* Two handles of different text versioned by the enumeration.
C14_Witness ==
    /\ AugmentedEnumeration
    /\ Len(sourceFiles) = 2
    /\ lastEnumeration.before[1].version = NoVersion
    /\ lastEnumeration.before[2].version = NoVersion
    /\ sourceFiles[1].text = <<0>> /\ sourceFiles[2].text = <<1>>
    /\ sourceFiles[1].version /= sourceFiles[2].version

\* C15: the augmented getSourceFiles returns the handles of the original
\* enumeration, the same objects in the same order, and changes nothing in
\* them but the version of those that had none.
C15_SameHandles ==
    AugmentedEnumeration =>
        /\ lastEnumeration.files = [i \in 1..Len(lastEnumeration.before) |-> i]
        /\ Len(sourceFiles) = Len(lastEnumeration.before)
        /\ \A i \in DOMAIN sourceFiles :
              /\ sourceFiles[i].text = lastEnumeration.before[i].text
              /\ DOMAIN sourceFiles[i] = DOMAIN lastEnumeration.before[i]
              /\ lastEnumeration.before[i].version /= NoVersion =>
                    sourceFiles[i] = lastEnumeration.before[i]

\* An enumeration of a versioned and an unversioned handle.
C15_Witness ==
    /\ AugmentedEnumeration
    /\ lastEnumeration.files = <<1, 2>>
    /\ lastEnumeration.before[1].version = HostVersion
    /\ lastEnumeration.before[2].version = NoVersion
    /\ sourceFiles[1] = lastEnumeration.before[1]
    /\ sourceFiles[2].version = Digest(sourceFiles[2].text)

\* C16 as stated: with the recorder and the post-processor both applied, the
\* post-processor every time with a processor, a call of resolveModuleNames
\* enters the function of the augmentation applied last first, returns the
\* resolution of every name in the order of the batch, has an edge in the graph
\* for every successful resolution and hands each successful resolution to the
\* pipeline exactly once.
C16_ExactlyOnce ==
    (lastCall.op = "resolveModuleNames" /\ Applied("dep") /\ Applied("ngcc")
       /\ Processors = NgccLayers) =>
        /\ lastCall.entered /= <<>>
        /\ lastCall.entered[1][1] = layers[Len(layers)]
        /\ ~lastCall.threw
        /\ lastCall.results =
              ResolutionsOf(lastCall.op, lastCall.names, lastCall.containingFile)
        /\ \A e \in SuccessfulEdges(lastCall.results, lastCall.containingFile) :
              HasEdge(dependencies, e)
        /\ lastCall.pipeline = PipelineOf(lastCall.names, lastCall.results, 1)

\* C16: with the recorder and the post-processor both applied, in any order, on
\* a base host with or without a batched resolver, a call of resolveModuleNames
\* enters the function of the augmentation applied last first, returns the
\* resolution of every name in the order of the batch, has an edge in the graph
\* for every successful resolution and hands each successful resolution to the
\* pipeline once for every application of the post-processor that was given a
\* processor.
C16_Layered ==
    (lastCall.op = "resolveModuleNames" /\ Applied("dep") /\ Applied("ngcc")) =>
        /\ lastCall.entered /= <<>>
        /\ lastCall.entered[1][1] = layers[Len(layers)]
        /\ ~lastCall.threw
        /\ lastCall.results =
              ResolutionsOf(lastCall.op, lastCall.names, lastCall.containingFile)
        /\ \A e \in SuccessfulEdges(lastCall.results, lastCall.containingFile) :
              HasEdge(dependencies, e)
        /\ lastCall.pipeline = PipelineTimes(lastCall.names, lastCall.results, 1,
                                             Cardinality(Processors))

\* The post-processor applied before and after the recorder on a host with a
\* batched resolver: the outer post-processor is entered first and enters the
\* recorder once per name, which enters the inner post-processor; pkg-a goes to
\* the pipeline twice and its edge is recorded.
C16_Witness ==
    /\ lastCall.op = "resolveModuleNames" /\ hasNativeRMN
    /\ layers = <<"ngcc", "dep", "ngcc">> /\ ngcc = <<TRUE, FALSE, TRUE>>
    /\ lastCall.names = <<"pkg-a", "pkg-b">>
    /\ lastCall.entered = <<<<"ngcc", "wrap">>,
                            <<"dep", "wrap">>, <<"ngcc", "wrap">>,
                            <<"dep", "wrap">>, <<"ngcc", "wrap">>>>
    /\ lastCall.results = <<Resolved(PkgADts), Undefined>>
    /\ lastCall.pipeline = <<<<"pkg-a", Resolved(PkgADts)>>, <<"pkg-a", Resolved(PkgADts)>>>>
    /\ PkgADts \in dependencies[AppTs]

\* C17: a forced retrieval of a cached path that gets absence from the
\* underlying host leaves the entry in the cache, and the next retrieval of the
\* path that does not force returns that handle without calling the
\* underlying host.
C17_EntrySurvivesAbsence ==
    [][AugmentedGetStep =>
          /\ ( /\ lastGet'.shouldCreateNewSourceFile
               /\ lastGet'.hadEntry
               /\ lastGet'.result = NoFile ) =>
                /\ lastGet'.fileName \in DOMAIN cache'
                /\ cache'[lastGet'.fileName] = cache[lastGet'.fileName]
          /\ (lastGet'.afterForcedAbsence /\ ~lastGet'.shouldCreateNewSourceFile) =>
                /\ lastGet'.result /= NoFile
                /\ lastGet'.result = cache[lastGet'.fileName]
                /\ lastGet'.delegateFlags = <<>>
                /\ created' = created]_vars

\* The retrieval after the forced one: answered with the handle cached before
\* the file went away.
C17_Witness ==
    /\ lastGet.called /\ lastGet.augmented
    /\ lastGet.afterForcedAbsence /\ ~lastGet.shouldCreateNewSourceFile
    /\ lastGet.result /= NoFile
    /\ lastGet.delegateFlags = <<>>

\* One batch of one name for every name of the batch, in order.
Singletons(names) == [i \in 1..Len(names) |-> <<names[i]>>]

\* n times the same entry.
Repeated(entry, n) == [i \in 1..n |-> entry]

\* C18: on a host with batched resolvers a call of the post-processor's
\* resolveModuleNames or resolveTypeReferenceDirectives with n names calls the
\* resolver it wraps n times, each time with one name, in the order of the
\* batch; a call of the recorder's resolveModuleNames calls the resolver it
\* wraps once, with the whole batch.
C18_BaseCalls ==
    /\ (lastCall.op = "resolveModuleNames" /\ hasNativeRMN /\ layers /= <<>>) =>
          /\ lastCall.baseCalls = IF Applied("ngcc") THEN Singletons(lastCall.names)
                                  ELSE <<lastCall.names>>
          /\ layers = <<"ngcc", "dep">> =>
                lastCall.entered = <<<<"dep", "wrap">>, <<"ngcc", "wrap">>>>
          /\ layers = <<"dep", "ngcc">> =>
                lastCall.entered = <<<<"ngcc", "wrap">>>>
                                      \o Repeated(<<"dep", "wrap">>, Len(lastCall.names))
    /\ (lastCall.op = "resolveTypeReferenceDirectives" /\ hasNativeTRD /\ Applied("ngcc")) =>
          lastCall.baseCalls = Singletons(lastCall.names)

\* The post-processor alone around a batched resolver, a batch of two names.
C18_Witness ==
    /\ lastCall.op = "resolveModuleNames" /\ hasNativeRMN
    /\ layers = <<"ngcc">>
    /\ lastCall.names = <<"pkg-b", "pkg-a">>
    /\ lastCall.baseCalls = <<<<"pkg-b">>, <<"pkg-a">>>>

\* The step is a call of the named resolution operation.
ResolutionCallStep(op) == lastCall' /= lastCall /\ lastCall'.op = op

\* C19: each augmentation changes only its own operation and its own table,
\* and no wrapped call changes the name array it was given.
\*  - Applying the recorder or the post-processor leaves getSourceFile and both
\*    tables as they were; applying the source cache leaves the resolution
\*    operations and both tables as they were.
\*  - The dependency graph changes only in a resolveModuleNames call of a host
\*    with the recorder applied, never in a resolveTypeReferenceDirectives
\*    call; the cache table changes only in a getSourceFile call through the
\*    source cache.
\*  - resolveTypeReferenceDirectives enters only functions of the
\*    post-processor, and without it is the underlying operation: one call with
\*    the whole batch and no pipeline call.  resolveModuleNames enters only
\*    functions of the augmentations applied to it, runs no pipeline without the
\*    post-processor, and with no augmentation applied is the underlying
\*    operation, whether or not the source cache is applied.
\*  - Without the source cache getSourceFile is the underlying operation,
\*    called with the flag it was given.
\*  - After every resolution call the name array holds the names it held when
\*    the call was made, in the same order.
C19_Frames ==
    [][/\ layers' /= layers =>
            /\ dependencies' = dependencies
            /\ cache' = cache /\ cachingApplied' = cachingApplied
       /\ cachingApplied' /= cachingApplied =>
            /\ layers' = layers /\ dependencies' = dependencies /\ cache' = cache
       /\ dependencies' /= dependencies =>
            /\ ResolutionCallStep("resolveModuleNames")
            /\ Applied("dep")
            /\ cache' = cache
       /\ cache' /= cache =>
            /\ AugmentedGetStep
            /\ dependencies' = dependencies
       /\ ResolutionCallStep("resolveTypeReferenceDirectives") =>
            /\ \A i \in DOMAIN lastCall'.entered : lastCall'.entered[i][1] = "ngcc"
            /\ ~Applied("ngcc") =>
                  /\ lastCall'.entered = <<>> /\ lastCall'.pipeline = <<>>
                  /\ lastCall'.baseCalls = <<lastCall'.names>>
       /\ ResolutionCallStep("resolveModuleNames") =>
            /\ \A i \in DOMAIN lastCall'.entered : Applied(lastCall'.entered[i][1])
            /\ ~Applied("ngcc") => lastCall'.pipeline = <<>>
            /\ layers = <<>> =>
                  /\ lastCall'.entered = <<>>
                  /\ lastCall'.baseCalls = <<lastCall'.names>>
       /\ (lastGet'.tick /= lastGet.tick /\ ~cachingApplied) =>
            /\ cache' = cache
            /\ lastGet'.delegateFlags = <<lastGet'.shouldCreateNewSourceFile>>
       /\ lastCall'.batch = lastCall'.names
      ]_vars

\* All three augmentations are applied, the recorder before the post-processor,
\* so that the post-processor's wrapper is given the caller's own array; the
\* last resolution call, with two names, resolved a module, ran the pipeline on
\* it, recorded its edge and left the array as it was, and the last retrieval
\* was stored in the cache table.
C19_Witness ==
    /\ layers = <<"dep", "ngcc">> /\ cachingApplied
    /\ lastCall.op = "resolveModuleNames" /\ lastCall.pipeline /= <<>>
    /\ Len(lastCall.names) = 2 /\ lastCall.batch = lastCall.names
    /\ dependencies /= <<>>
    /\ lastGet.called /\ lastGet.augmented /\ cache /= <<>>

\* C20: every key of the dependency graph maps to a non-empty set. A key is
\* created only by a resolveModuleNames call that resolved at least one name,
\* it is the normalized containing file of that call, and it holds a target
\* the call resolved; a call in which no name resolved creates no key.
C20_NoEmptyKey ==
    /\ [](\A k \in DOMAIN dependencies : dependencies[k] /= {})
    /\ [][\A k \in DOMAIN dependencies' \ DOMAIN dependencies :
            /\ lastCall'.op = "resolveModuleNames"
            /\ k = normalizePath(lastCall'.containingFile)
            /\ \E i \in DOMAIN lastCall'.results :
                  /\ lastCall'.results[i].defined
                  /\ lastCall'.results[i].resolvedFileName \in dependencies'[k]
         ]_vars

\* The recorder is applied and the last resolution call, for a containing file
\* that has no key, resolved none of its names, while another containing file
\* has a key.
C20_Witness ==
    /\ Applied("dep")
    /\ lastCall.op = "resolveModuleNames" /\ ~lastCall.threw
    /\ lastCall.names /= <<>>
    /\ \A i \in DOMAIN lastCall.results : ~lastCall.results[i].defined
    /\ normalizePath(lastCall.containingFile) \notin DOMAIN dependencies
    /\ dependencies /= <<>>

====
